---- MODULE Spec2Model ----
(***************************************************************************)
(* Payment-lifecycle coordinator of the PeronTips fliers backend: the      *)
(* in-memory transaction ledger `logs`, the cached Daraja access token,    *)
(* the asynchronous STK-push initiation handlers and the /callback         *)
(* reconciliation handler.  The repository holds several deployment        *)
(* iterations of server.js; the variable `variant` says which one runs:    *)
(*   "original"  src/server.js lines 1-153                                 *)
(*   "flyer"     src/server.js lines 155-410                               *)
(*   "modified"  src/unnamed/part_000 lines 256-375 (the file ends inside  *)
(*               this iteration: it has getAccessToken and                 *)
(*               POST /api/mpesa/stk and no other route)                   *)
(*   "render"    src/unnamed/part_000 lines 1-254                          *)
(*   "peron"     src/unnamed/part_001                                      *)
(***************************************************************************)
EXTENDS Integers, Sequences, FiniteSets, TLC

VARIABLES
    variant,           \* which deployment iteration of server.js is running
    credsConfigured,   \* DARAJA_CONSUMER_KEY and DARAJA_CONSUMER_SECRET are set
    logs,              \* let logs = []            (the ledger)
    accessTokenCache,  \* let accessTokenCache = null
    tokenExpiryTime,   \* let tokenExpiryTime = null
    now,               \* Date.now(), in ms since the process started
    inflight,          \* initiation requests suspended at an await
    nextRid,           \* number of initiation requests received so far
    issuedCount,       \* number of CheckoutRequestIDs the gateway has issued
    exchanges,         \* number of credential exchanges answered 2xx
    delivered,         \* number of POST /callback requests received so far
    last               \* the response the last step sent, if it sent one

vars == <<variant, credsConfigured, logs, accessTokenCache, tokenExpiryTime,
          now, inflight, nextRid, issuedCount, exchanges, delivered, last>>

----------------------------------------------------------------------------
(* Bounds of the model. *)

\* initiations and callbacks received plus clock ticks, after which the
\* server is sent no further request
MaxEvents == 3

\* in the iteration that serves both /pay and /api/mpesa/stk, the requests
\* after the first MaxMixed are sent to /api/mpesa/stk
MaxMixed == 1

\* the clock advances an hour at a time
TickMs == 60 * 60 * 1000

----------------------------------------------------------------------------
(* JavaScript values.  A string-valued field that is absent reads as       *)
(* undefined; a number-valued field is the set {n}, or {} when it is null  *)
(* or absent.  A phone is the sequence of its characters, <<>> when the    *)
(* request carries none (undefined or '').                                 *)

Undefined == "<undefined>"
Null == "<null>"
NoNum == {}
Num(n) == {n}
NumVal(s) == CHOOSE n \in s : TRUE

\* !!s for a string-valued s
Truthy(s) == s \notin {Undefined, Null, ""}
\* a || b for a string-valued a
OrElse(a, b) == IF Truthy(a) THEN a ELSE b
\* !!s for a number-valued s
TruthyNum(s) == s # NoNum /\ NumVal(s) # 0
\* s || null for a number-valued s
NumOrNull(s) == IF TruthyNum(s) THEN s ELSE NoNum

Variants == {"original", "flyer", "modified", "render", "peron"}

\* A phone is a JavaScript string: a sequence of UTF-16 code units.
\* CodeUnit maps each character this module writes to its code unit, and
\* Str turns a tuple of such characters into the string they spell.
CodeUnit ==
    ("0" :> 48) @@ ("1" :> 49) @@ ("2" :> 50) @@ ("3" :> 51) @@ ("4" :> 52)
    @@ ("5" :> 53) @@ ("6" :> 54) @@ ("7" :> 55) @@ ("8" :> 56) @@ ("9" :> 57)
    @@ ("+" :> 43) @@ ("-" :> 45) @@ (" " :> 32) @@ ("\t" :> 9)
    @@ ("a" :> 97) @@ ("b" :> 98) @@ ("c" :> 99) @@ ("k" :> 107)
    @@ ("n" :> 110) @@ ("o" :> 111) @@ ("u" :> 117) @@ ("w" :> 119)
    @@ ("x" :> 120)
RECURSIVE Str(_)
Str(chars) ==
    IF chars = <<>> THEN <<>>
    ELSE <<CodeUnit[Head(chars)]>> \o Str(Tail(chars))

\* phone: 'unknown' of an orphan record
UnknownPhone == Str(<<"u", "n", "k", "n", "o", "w", "n">>)
P07 == Str(<<"0", "7", "1", "2", "3", "4", "5", "6", "7", "8">>)
P7 == Str(<<"7", "1", "2", "3", "4", "5", "6", "7", "8">>)
P254 == Str(<<"2", "5", "4", "7", "1", "2", "3", "4", "5", "6", "7", "8">>)

FIXED_AMOUNT == 20
MAX_AMOUNT == 30
\* 1000 * 60 * 60 * 12
ExpiryMs == 1000 * 60 * 60 * 12

\* the CheckoutRequestID the gateway issues for its n-th accepted request
CheckoutId(n) == "ws_CO_" \o ToString(n)
\* an identifier the gateway never issued to this process
UnknownId == "ZZZ999"
\* the access_token of the gateway's n-th credential exchange
AccessToken(n) == "token_" \o ToString(n)

----------------------------------------------------------------------------
(* getTimestamp(): the digits of the date at second granularity.  The      *)
(* model's clock starts at midnight: <<day, hh, mm, ss>>.                  *)

getTimestamp(t) ==
    LET s == t \div 1000
    IN  <<s \div 86400, (s \div 3600) % 24, (s \div 60) % 60, s % 60>>

----------------------------------------------------------------------------
(* normalizePhone of part_001. *)

\* \d: the code units of 0 to 9
IsDigit(c) == c \in CodeUnit["0"]..CodeUnit["9"]

\* the code units /\s/ matches: U+0009 to U+000D (tab, line feed, vertical
\* tab, form feed, carriage return), U+0020 (space), U+00A0 (no-break
\* space), U+1680, U+2000 to U+200A, U+2028, U+2029, U+202F, U+205F, U+3000
\* and U+FEFF
Whitespace ==
    (9..13) \cup {32, 160, 5760} \cup (8192..8202)
        \cup {8232, 8233, 8239, 8287, 12288, 65279}

\* phone.replace(/\s|\+|-/g, '')
RECURSIVE Cleaned(_)
Cleaned(p) ==
    IF p = <<>> THEN <<>>
    ELSE IF Head(p) \in Whitespace \cup {CodeUnit["+"], CodeUnit["-"]}
         THEN Cleaned(Tail(p))
         ELSE <<Head(p)>> \o Cleaned(Tail(p))

AllDigits(p, from) == \A i \in from..Len(p) : IsDigit(p[i])

\* /^07\d{8}$/
IsNational(p) ==
    Len(p) = 10 /\ SubSeq(p, 1, 2) = Str(<<"0", "7">>) /\ AllDigits(p, 3)
\* /^7\d{8}$/
IsBare(p) == Len(p) = 9 /\ p[1] = CodeUnit["7"] /\ AllDigits(p, 2)
\* /^2547\d{8}$/
IsInternational(p) ==
    Len(p) = 12 /\ SubSeq(p, 1, 4) = Str(<<"2", "5", "4", "7">>)
    /\ AllDigits(p, 5)

\* the result null is the empty phone <<>>: both fail the caller's !phone
normalizePhone(p) ==
    IF p = <<>> THEN <<>>
    ELSE LET c == Cleaned(p)
         IN  IF IsNational(c) THEN c
             ELSE IF IsBare(c) THEN Str(<<"0">>) \o c
             ELSE IF IsInternational(c) THEN c
             ELSE c

----------------------------------------------------------------------------
(* Ledger records. *)

LogRec(phone, amount, event, template, status, timestamp, checkoutId, details) ==
    [phone |-> phone, amount |-> amount, event |-> event, template |-> template,
     status |-> status, timestamp |-> timestamp, checkoutId |-> checkoutId,
     details |-> details, mpesaReceipt |-> Undefined, resultDesc |-> Undefined,
     expiry |-> NoNum, paidAmount |-> NoNum]

\* logs.findIndex(l => l.checkoutId === checkoutId), 0 for -1
FindIndex(ls, id) ==
    IF \E i \in 1..Len(ls) : ls[i].checkoutId = id
    THEN CHOOSE i \in 1..Len(ls) :
             /\ ls[i].checkoutId = id
             /\ \A j \in 1..(i - 1) : ls[j].checkoutId # id
    ELSE 0

\* a null entry of CallbackMetadata.Item
NullItem == <<>>
IsNullItem(x) == DOMAIN x = {}

\* i.Name === name, for an entry i that is an object
Named(x, name) == ~IsNullItem(x) /\ x.Name = name

\* items.find(i => i.Name === name) throws a TypeError: it reads .Name of a
\* null entry before it has found an entry of that name
FindThrows(items, name) ==
    \E i \in 1..Len(items) :
        /\ IsNullItem(items[i])
        /\ \A j \in 1..(i - 1) : ~Named(items[j], name)

\* items.find(i => i.Name === name)?.Value, for a string-valued item
ItemString(items, name) ==
    IF \E i \in 1..Len(items) : Named(items[i], name)
    THEN LET k == CHOOSE i \in 1..Len(items) :
                      /\ Named(items[i], name)
                      /\ \A j \in 1..(i - 1) : ~Named(items[j], name)
         IN  items[k].Value
    ELSE Undefined

\* items.find(i => i.Name === name)?.Value, for a number-valued item
ItemNumber(items, name) ==
    IF \E i \in 1..Len(items) : Named(items[i], name)
    THEN LET k == CHOOSE i \in 1..Len(items) :
                      /\ Named(items[i], name)
                      /\ \A j \in 1..(i - 1) : ~Named(items[j], name)
         IN  Num(items[k].Value)
    ELSE NoNum

\* (callback.ResultCode === 0) ? 'Success' : 'Failed'
OutcomeOf(cb) == IF cb.ResultCode = 0 THEN "Success" ELSE "Failed"

----------------------------------------------------------------------------
(* POST /callback: what the handler does to the ledger, per iteration.     *)
(* cb is Body.stkCallback, t is Date.now().                                *)

\* logs[logIndex] = { ... }: the handler stores a record built from the
\* callback in place of the record it found
CallbackRender_Replace(ls, cb, t) ==
    LET checkoutId == cb.CheckoutRequestID
        logIndex == FindIndex(ls, checkoutId)
        entry == LogRec(UnknownPhone, NoNum, Undefined, Undefined,
                        OutcomeOf(cb), getTimestamp(t), checkoutId, cb)
    IN  IF logIndex # 0 THEN [ls EXCEPT ![logIndex] = entry]
        ELSE Append(ls, entry)

\* part_000, app.post('/callback')
CallbackRender(ls, cb, t) ==
    LET checkoutId == cb.CheckoutRequestID
        receipt == ItemString(cb.Items, "MpesaReceiptNumber")
        logIndex == FindIndex(ls, checkoutId)
    IN  IF logIndex # 0
        THEN [ls EXCEPT ![logIndex] =
                 [@ EXCEPT !.status = OutcomeOf(cb),
                           !.mpesaReceipt = OrElse(receipt, Null),
                           !.resultDesc = OrElse(cb.ResultDesc, Null),
                           !.expiry = IF cb.ResultCode = 0
                                      THEN Num(t + ExpiryMs) ELSE @]]
        ELSE Append(ls, LogRec(UnknownPhone, NoNum, Undefined, Undefined,
                               OrElse(cb.ResultDesc, OutcomeOf(cb)),
                               getTimestamp(t), checkoutId, cb))

\* server.js (second iteration), app.post('/callback')
CallbackFlyer(ls, cb, t) ==
    LET checkoutId == cb.CheckoutRequestID
        receipt == ItemString(cb.Items, "MpesaReceiptNumber")
        logIndex == FindIndex(ls, checkoutId)
    IN  IF logIndex # 0
        THEN [ls EXCEPT ![logIndex] =
                 [@ EXCEPT !.status = OutcomeOf(cb),
                           !.mpesaReceipt = OrElse(receipt, Null),
                           !.resultDesc = OrElse(cb.ResultDesc, Null),
                           !.expiry = IF cb.ResultCode = 0
                                      THEN Num(t + ExpiryMs) ELSE @]]
        ELSE Append(ls, LogRec(UnknownPhone, NoNum, Undefined, Undefined,
                               cb.ResultDesc,
                               getTimestamp(t), checkoutId, cb))

\* part_001, app.post('/callback')
CallbackPeron(ls, cb, t) ==
    LET checkoutId == cb.CheckoutRequestID
        mpesaReceipt == OrElse(ItemString(cb.Items, "MpesaReceiptNumber"), Null)
        paidAmount == NumOrNull(ItemNumber(cb.Items, "Amount"))
        logIndex == FindIndex(ls, checkoutId)
    IN  IF logIndex # 0
        THEN [ls EXCEPT ![logIndex] =
                 [@ EXCEPT !.status = OutcomeOf(cb),
                           !.mpesaReceipt = mpesaReceipt,
                           !.resultDesc = cb.ResultDesc,
                           !.paidAmount = IF TruthyNum(paidAmount)
                                          THEN paidAmount ELSE @]]
        ELSE Append(ls, [LogRec(UnknownPhone, NumOrNull(paidAmount),
                                Undefined, Undefined,
                                OrElse(cb.ResultDesc, "Unknown"),
                                getTimestamp(t), checkoutId, cb)
                         EXCEPT !.mpesaReceipt = mpesaReceipt])

\* server.js (first iteration), app.post('/callback'): the receipt and the
\* result description are stored as they are, and no expiry is set
CallbackOriginal(ls, cb, t) ==
    LET checkoutId == cb.CheckoutRequestID
        receipt == ItemString(cb.Items, "MpesaReceiptNumber")
        logIndex == FindIndex(ls, checkoutId)
    IN  IF logIndex # 0
        THEN [ls EXCEPT ![logIndex] =
                 [@ EXCEPT !.status = OutcomeOf(cb),
                           !.mpesaReceipt = receipt,
                           !.resultDesc = cb.ResultDesc]]
        ELSE Append(ls, LogRec(UnknownPhone, NoNum, Undefined, Undefined,
                               cb.ResultDesc,
                               getTimestamp(t), checkoutId, cb))

Reconcile(v, ls, cb, t) ==
    CASE v = "render" -> CallbackRender(ls, cb, t)
      [] v = "original" -> CallbackOriginal(ls, cb, t)
      [] v = "flyer" -> CallbackFlyer(ls, cb, t)
      [] v = "peron" -> CallbackPeron(ls, cb, t)

\* the handler throws while it reads the metadata, before it touches logs
CallbackThrows(v, cb) ==
    \/ FindThrows(cb.Items, "MpesaReceiptNumber")
    \/ v = "peron" /\ FindThrows(cb.Items, "Amount")

\* the status POST /callback answers a payload that has a Body.stkCallback
\* with: 200 with { ResultCode: 0, ResultDesc: 'Received' }, or 500 from the
\* catch block (part_000, part_001) or from Express's error handler (both
\* iterations of server.js)
CallbackStatus(v, cb) == IF CallbackThrows(v, cb) THEN 500 ELSE 200

----------------------------------------------------------------------------
(* The record an initiation appends once the gateway has answered.         *)
(* r is the suspended request, data is darajaResponse.data, t Date.now().  *)

\* part_000, app.post('/api/mpesa/stk')
PendingRender(r, data, t) ==
    LogRec(r.phone, Num(FIXED_AMOUNT), OrElse(r.event, Null),
           OrElse(r.template, Null), "Pending", getTimestamp(t),
           OrElse(data.CheckoutRequestID, Null), data)

\* server.js (second iteration), app.post('/api/mpesa/stk')
PendingFlyer(r, data, t) ==
    LogRec(r.phone, Num(FIXED_AMOUNT), OrElse(r.event, Null),
           OrElse(r.template, Null), "Pending", r.timestamp,
           data.CheckoutRequestID, data)

\* part_001, app.post('/pay')
PendingPeron(r, data, t) ==
    LogRec(r.phone, r.amount, Undefined, Undefined, "Pending", r.timestamp,
           data.CheckoutRequestID, data)

\* server.js (both iterations), app.post('/pay'): phone and amount are the
\* request's, as received
PendingFlyerPay(r, data, t) ==
    LogRec(r.phone, r.amount, Undefined, Undefined, "Pending", r.timestamp,
           data.CheckoutRequestID, data)

\* part_000 (second iteration), app.post('/api/mpesa/stk'): the timestamp
\* is the one sent with the STK push
PendingModified(r, data, t) ==
    LogRec(r.phone, Num(FIXED_AMOUNT), OrElse(r.event, Null),
           OrElse(r.template, Null), "Pending", r.timestamp,
           OrElse(data.CheckoutRequestID, Null), data)

NewPending(v, r, data, t) ==
    CASE v = "render" -> PendingRender(r, data, t)
      [] v = "modified" -> PendingModified(r, data, t)
      [] v = "original" -> PendingFlyerPay(r, data, t)
      [] v = "flyer" /\ r.op = "stk" -> PendingFlyer(r, data, t)
      [] v = "flyer" /\ r.op = "pay" -> PendingFlyerPay(r, data, t)
      [] v = "peron" -> PendingPeron(r, data, t)

\* logs.push(logEntry)
PushLog(ls, entry) == Append(ls, entry)

\* the catch block records the failed attempt in the ledger
LogsAfterError_Push(ls, r, t) ==
    Append(ls, LogRec(r.phone, r.amount, r.event, r.template, "Failed",
                      getTimestamp(t), Undefined, Undefined))

\* the catch block of an initiation handler: the ledger is not touched
LogsAfterError(ls, r, t) == ls

----------------------------------------------------------------------------
(* getAccessToken. *)

\* axios.get(.../oauth/v1/generate, { timeout: 10000 }); the first iteration
\* of server.js and the second of part_000 set no timeout
OauthTimeoutMs == 10000
\* axios.post(.../stkpush/v1/processrequest, { timeout: 15000 }) of the first
\* iteration of part_000 and of part_001; the others set none
StkTimeoutMs == 15000

\* how long the gateway honours a token it issued: "Daraja tokens generally
\* valid for 1 hour"
GatewayValidityMs == 60 * 60 * 1000

\* the cached token is returned whatever its expiry time
TokenFresh_IgnoresExpiry(cache, expiry, t) == Truthy(cache)

\* the cache is never consulted
TokenFresh_Never(cache, expiry, t) == FALSE

\* accessTokenCache && tokenExpiryTime > Date.now()
TokenFresh(cache, expiry, t) ==
    Truthy(cache) /\ expiry # NoNum /\ NumVal(expiry) > t

\* tokenExpiryTime = Date.now() + ...
TokenExpiry(v, t) ==
    CASE v = "render" -> t + 3500000
      [] v \in {"original", "flyer", "modified"} -> t + 3600000
      [] v = "peron" -> t + (60 * 60 * 1000) - (5 * 1000)

----------------------------------------------------------------------------
(* Read-side projections. *)

\* logs.find(l => l.checkoutId === checkoutId), <<>> when there is none
FindByCheckoutId(ls, id) ==
    IF FindIndex(ls, id) = 0 THEN <<>> ELSE <<ls[FindIndex(ls, id)]>>

\* the body GET /api/mpesa/status answers with
StatusProjection(found) ==
    [status |-> OrElse(found.status, "Pending"),
     phone |-> found.phone,
     amount |-> found.amount,
     event |-> found.event,
     template |-> found.template,
     mpesaReceipt |-> OrElse(found.mpesaReceipt, Null),
     resultDesc |-> OrElse(found.resultDesc, Null),
     expiry |-> NumOrNull(found.expiry),
     checkoutId |-> found.checkoutId]

\* logs.filter(log => log.phone === phone)
FilterByPhone(ls, phone) == SelectSeq(ls, LAMBDA l : l.phone = phone)

\* userLogs[0] in place of userLogs[userLogs.length - 1]
LastLog_First(userLogs) == userLogs[1]

\* userLogs[userLogs.length - 1]
LastLog(userLogs) == userLogs[Len(userLogs)]

\* GET /status?phone=q: the status and the record of the answer; part_001
\* normalizes the phone before it filters
StatusByPhone(v, ls, q) ==
    LET phone == IF v = "peron" THEN normalizePhone(q) ELSE q
        userLogs == FilterByPhone(ls, phone)
    IN  IF q = <<>> \/ phone = <<>> THEN [code |-> 400, body |-> <<>>]
        ELSE IF Len(userLogs) = 0 THEN [code |-> 404, body |-> <<>>]
        ELSE [code |-> 200, body |-> <<LastLog(userLogs)>>]

\* GET /api/mpesa/status?checkoutId=id: the status and the body of the answer
StatusById(ls, id) ==
    IF ~Truthy(id) THEN [code |-> 400, body |-> <<>>]
    ELSE IF FindByCheckoutId(ls, id) = <<>> THEN [code |-> 404, body |-> <<>>]
    ELSE [code |-> 200,
          body |-> <<StatusProjection(FindByCheckoutId(ls, id)[1])>>]

\* GET /logs?phone=q: phone ? logs.filter(l => l.phone === phone) : logs;
\* part_001 compares with normalizePhone(String(phone))
ListLogs(v, ls, q) ==
    IF q = <<>> THEN ls
    ELSE FilterByPhone(ls, IF v = "peron" THEN normalizePhone(q) ELSE q)

\* logs = logs.filter(...): the listing narrows the ledger itself
LogsAfterQuery_Assign(ls, result) == result

\* the ledger after a status or listing handler has run: find and filter
\* read logs and build their result apart from it
LogsAfterQuery(ls, result) == ls

----------------------------------------------------------------------------
(* Requests and responses. *)

\* an initiation request suspended at an await
\* rawPhone is the phone of the request body and phone the one the handler
\* uses; sentAt is the time the outstanding gateway call was sent; token is
\* what getAccessToken returned, cached says it came from the cache and until
\* is the expiry time the cache held for it when it was returned; gets and
\* posts count the axios.get and axios.post calls made for the request
Req(rid, op, rawPhone, phone, amount, event, template) ==
    [rid |-> rid, op |-> op, rawPhone |-> rawPhone, phone |-> phone,
     amount |-> amount,
     event |-> event, template |-> template, pc |-> "oauth",
     timestamp |-> getTimestamp(0), outcome |-> "none", cid |-> Undefined,
     sentAt |-> 0, token |-> Undefined, cached |-> FALSE, until |-> NoNum,
     gets |-> 0, posts |-> 0]

\* what the gateway does with a submitted STK push
SendOutcomes == {"ok", "noid", "error"}

\* what the gateway does with an STK push sent with the bearer token `token`:
\* it refuses a push whose Authorization header is 'Bearer undefined'
SendOutcomesFor(token) == IF Truthy(token) THEN SendOutcomes ELSE {"error"}

\* the request after axios.post(.../stkpush/v1/processrequest) was sent at
\* time t with the bearer token `token`, cached until `until`; the gateway
\* has issued n identifiers so far
Sent(r, t, outcome, n, token, cached, until) ==
    [r EXCEPT !.pc = "resp", !.timestamp = getTimestamp(t),
              !.outcome = outcome,
              !.cid = IF outcome = "ok" THEN CheckoutId(n + 1) ELSE Undefined,
              !.sentAt = t, !.token = token, !.cached = cached,
              !.until = until, !.posts = @ + 1]

\* darajaResponse.data of a suspended request the gateway accepted
ResponseData(r) == [CheckoutRequestID |-> r.cid, ResponseCode |-> "0"]

\* a response: the route, the HTTP status, for a POST /callback the payload
\* <<cb>> it answers, for a query the phone or identifier <<q>> asked for and
\* the body: <<rec>> for a status, the records for a listing
\* err is the failure getAccessToken reported to its caller or to the console,
\* "none" when it reported none
Resp(op, code) ==
    [op |-> op, code |-> code, cb |-> <<>>, query |-> <<>>, body |-> <<>>,
     err |-> "none"]
\* the step sent no response
NoResp == Resp("none", 0)

\* the number of requests received and clock ticks so far
Events == nextRid + delivered + (now \div TickMs)

KnownIds == {CheckoutId(k) : k \in 1..issuedCount}

ResultDescOf(code) ==
    IF code = 0 THEN "The service request is processed successfully."
    ELSE "Request cancelled by user"

PaidItems ==
    <<[Name |-> "Amount", Value |-> 20],
      [Name |-> "MpesaReceiptNumber", Value |-> "ABC123"]>>

\* Body.stkCallback for identifier id
StkCallback(id, code, desc, items) ==
    [CheckoutRequestID |-> id, ResultCode |-> code, ResultDesc |-> desc,
     Items |-> items]

\* a payload whose CallbackMetadata.Item is [null]
MalformedCallback ==
    StkCallback(UnknownId, 0, ResultDescOf(0), <<NullItem>>)

\* the Body.stkCallback payloads delivered to POST /callback: a success and
\* a failure, each with and without ResultDesc, and a failure that carries
\* receipt metadata, each for every identifier, and a malformed one
CallbackInputs ==
    UNION { { StkCallback(id, 0, ResultDescOf(0), PaidItems),
              StkCallback(id, 0, Undefined, PaidItems),
              StkCallback(id, 1032, ResultDescOf(1032), <<>>),
              StkCallback(id, 1032, Undefined, <<>>),
              StkCallback(id, 1032, ResultDescOf(1032), PaidItems) } :
            id \in KnownIds \cup {UnknownId} }
    \cup { MalformedCallback }

PhoneInputs == {<<>>, P07}
\* { event, template }: an event tag and no template tag
MetadataInputs == {<<"derby", Undefined>>}
\* the phones asked for with GET /status?phone=
PhoneQueries == {<<>>, P07, P7, UnknownPhone}
\* the phones asked for with GET /logs?phone=: none (all records) and one
LogsQueries == {<<>>, P07}
\* the identifiers asked for with GET /api/mpesa/status?checkoutId=
IdQueries == KnownIds \cup {UnknownId}
\* the { phone, amount } bodies posted to /pay of part_001
PayInputs ==
    {<<P7, Num(20)>>, <<P7, Num(31)>>, <<P7, Num(0)>>, <<P7, NoNum>>,
     <<<<>>, Num(20)>>}
\* the { phone, amount } bodies posted to /pay of server.js: no phone, and an
\* amount above part_001's ceiling
FlyerPayInputs == {<<<<>>, Num(31)>>}

----------------------------------------------------------------------------
Init ==
    /\ variant \in Variants
    /\ credsConfigured \in BOOLEAN
    /\ logs = <<>>
    /\ accessTokenCache = Null
    /\ tokenExpiryTime = NoNum
    /\ now = 0
    /\ inflight = {}
    /\ nextRid = 0
    /\ issuedCount = 0
    /\ exchanges = 0
    /\ delivered = 0
    /\ last = NoResp

\* the handler answers at once, with an error status
Reject(op, code) ==
    /\ last' = Resp(op, code)
    /\ UNCHANGED <<inflight, issuedCount>>

\* getAccessToken finds the consumer key or secret missing: it returns null
\* (part_000) or throws 'Daraja consumer key/secret not configured'
\* (part_001), and the handler answers 500
RejectNoCreds(op) ==
    /\ last' = [Resp(op, 500) EXCEPT !.err = "CredentialsUnavailable"]
    /\ UNCHANGED <<inflight, issuedCount>>

\* getAccessToken returned the cached token: the handler submits the STK push
\* and suspends until the gateway answers
Submit(r) ==
    \E o \in SendOutcomes :
        /\ inflight' = inflight \cup
                          {Sent(r, now, o, issuedCount, accessTokenCache, TRUE,
                                tokenExpiryTime)}
        /\ issuedCount' = IF o = "ok" THEN issuedCount + 1 ELSE issuedCount
        /\ last' = NoResp

\* the handler asks for a new access token and suspends
AwaitToken(r) ==
    /\ inflight' = inflight \cup {[r EXCEPT !.sentAt = now, !.gets = @ + 1]}
    /\ last' = NoResp
    /\ UNCHANGED issuedCount

\* the status the catch block answers with; `status` is error.response.status,
\* 0 when the gateway sent no response (timeout, network error)
ErrorStatus(v, status) == IF v = "peron" /\ status # 0 THEN status ELSE 500

\* the gateway's answer did not arrive within the timeout of axios.get
OauthTimedOut(v, r, t) ==
    v \in {"flyer", "render", "peron"} /\ t - r.sentAt > OauthTimeoutMs

\* the gateway's answer did not arrive within the timeout of axios.post
TimedOut(v, r, t) == v \in {"render", "peron"} /\ t - r.sentAt > StkTimeoutMs

\* POST /api/mpesa/stk up to its first await
StkStart(phone, event, template) ==
    /\ variant \in {"render", "flyer", "modified"}
    /\ Events < MaxEvents
    /\ nextRid' = nextRid + 1
    /\ LET r == Req(nextRid + 1, "stk", phone, phone, Num(FIXED_AMOUNT),
                    event, template)
       IN  IF phone = <<>> THEN Reject("stk", 400)
           ELSE IF TokenFresh(accessTokenCache, tokenExpiryTime, now)
                THEN Submit(r)
           ELSE IF variant = "render" /\ ~credsConfigured
                THEN RejectNoCreds("stk")
           ELSE AwaitToken(r)
    /\ UNCHANGED <<variant, credsConfigured, logs, accessTokenCache,
                   tokenExpiryTime, now, exchanges, delivered>>

\* POST /pay of server.js (both iterations) up to its first await: nothing
\* of the request is validated
FlyerPayStart(phone, amount) ==
    /\ variant \in {"original", "flyer"}
    /\ variant = "flyer" => nextRid < MaxMixed
    /\ Events < MaxEvents
    /\ nextRid' = nextRid + 1
    /\ LET r == Req(nextRid + 1, "pay", phone, phone, amount,
                    Undefined, Undefined)
       IN  IF TokenFresh(accessTokenCache, tokenExpiryTime, now)
           THEN Submit(r)
           ELSE AwaitToken(r)
    /\ UNCHANGED <<variant, credsConfigured, logs, accessTokenCache,
                   tokenExpiryTime, now, exchanges, delivered>>

\* POST /pay of part_001 up to its first await
PayStart(rawPhone, amount) ==
    /\ variant = "peron"
    /\ Events < MaxEvents
    /\ nextRid' = nextRid + 1
    /\ LET phone == normalizePhone(rawPhone)
           r == Req(nextRid + 1, "pay", rawPhone, phone, amount,
                    Undefined, Undefined)
       IN  IF amount = NoNum THEN Reject("pay", 400)
           ELSE IF NumVal(amount) <= 0 THEN Reject("pay", 400)
           ELSE IF NumVal(amount) > MAX_AMOUNT THEN Reject("pay", 400)
           ELSE IF phone = <<>> THEN Reject("pay", 400)
           ELSE IF TokenFresh(accessTokenCache, tokenExpiryTime, now)
                THEN Submit(r)
           ELSE IF ~credsConfigured THEN RejectNoCreds("pay")
           ELSE AwaitToken(r)
    /\ UNCHANGED <<variant, credsConfigured, logs, accessTokenCache,
                   tokenExpiryTime, now, exchanges, delivered>>

\* response.data.access_token of the gateway's n-th 2xx answer to a
\* credential exchange: a token, or undefined when the body carries none
ExchangeAnswers(n) == {AccessToken(n), Undefined}

\* the handler tests `if (!token)` before it builds the STK request:
\* /api/mpesa/stk of part_000 1-254 and of server.js 155-410
ChecksToken(v, op) == v = "render" \/ (v = "flyer" /\ op = "stk")

\* getAccessToken resumes with the gateway's 2xx answer: it stores
\* response.data.access_token and the expiry time and returns the token.
\* A handler that tests the token answers 500 when it is falsy; every other
\* handler, and every handler with a token, goes on to submit the STK push
OauthOk(r) ==
    /\ r \in inflight /\ r.pc = "oauth"
    /\ credsConfigured
    /\ ~OauthTimedOut(variant, r, now)
    /\ exchanges' = exchanges + 1
    /\ \E token \in ExchangeAnswers(exchanges + 1) :
        /\ accessTokenCache' = token
        /\ tokenExpiryTime' = Num(TokenExpiry(variant, now))
        /\ IF ChecksToken(variant, r.op) /\ ~Truthy(token)
           THEN /\ inflight' = inflight \ {r}
                /\ last' = Resp(r.op, 500)
                /\ UNCHANGED issuedCount
           ELSE /\ \E o \in SendOutcomesFor(token) :
                    /\ inflight' = (inflight \ {r})
                          \cup {Sent(r, now, o, issuedCount, token, FALSE,
                                     Num(TokenExpiry(variant, now)))}
                    /\ issuedCount' = IF o = "ok" THEN issuedCount + 1
                                      ELSE issuedCount
                /\ last' = NoResp
    /\ UNCHANGED <<variant, credsConfigured, logs, now, nextRid, delivered>>

\* the catch block of getAccessToken sends the exchange a second time
OauthFail_Retry(r) ==
    /\ r \in inflight /\ r.pc = "oauth" /\ r.gets < 2
    /\ inflight' = (inflight \ {r})
                      \cup {[r EXCEPT !.sentAt = now, !.gets = @ + 1]}
    /\ last' = NoResp
    /\ UNCHANGED <<variant, credsConfigured, logs, accessTokenCache,
                   tokenExpiryTime, now, nextRid, issuedCount, exchanges,
                   delivered>>

\* the catch block of getAccessToken resets the cache:
\* accessTokenCache = null; tokenExpiryTime = null
OauthFail_ClearsCache(r) ==
    /\ r \in inflight /\ r.pc = "oauth"
    /\ inflight' = inflight \ {r}
    /\ accessTokenCache' = Null
    /\ tokenExpiryTime' = NoNum
    /\ last' = [Resp(r.op, 500) EXCEPT !.err = "UpstreamAuthFailure"]
    /\ UNCHANGED <<variant, credsConfigured, logs, now, nextRid, issuedCount,
                   exchanges, delivered>>

\* the credential exchange errors or times out: no token, the handler answers 500
OauthFail(r) ==
    /\ r \in inflight /\ r.pc = "oauth"
    /\ inflight' = inflight \ {r}
    /\ logs' = LogsAfterError(logs, r, now)
    /\ last' = [Resp(r.op, 500) EXCEPT !.err = "UpstreamAuthFailure"]
    /\ UNCHANGED <<variant, credsConfigured, accessTokenCache, tokenExpiryTime,
                   now, nextRid, issuedCount, exchanges, delivered>>

\* the handler resumes with darajaResponse and appends the Pending record
StkAccepted(r) ==
    /\ r \in inflight /\ r.pc = "resp" /\ r.outcome \in {"ok", "noid"}
    /\ ~TimedOut(variant, r, now)
    /\ inflight' = inflight \ {r}
    /\ logs' = PushLog(logs, NewPending(variant, r, ResponseData(r), now))
    /\ last' = Resp(r.op, 200)
    /\ UNCHANGED <<variant, credsConfigured, accessTokenCache, tokenExpiryTime,
                   now, nextRid, issuedCount, exchanges, delivered>>

\* axios.post throws (timeout, network error, 4xx/5xx): the catch block answers
StkFailed(r) ==
    /\ r \in inflight /\ r.pc = "resp"
    /\ r.outcome = "error" \/ TimedOut(variant, r, now)
    /\ inflight' = inflight \ {r}
    /\ logs' = LogsAfterError(logs, r, now)
    /\ \E status \in IF r.outcome = "error" THEN {0, 400} ELSE {0} :
           last' = Resp(r.op, ErrorStatus(variant, status))
    /\ UNCHANGED <<variant, credsConfigured, accessTokenCache, tokenExpiryTime,
                   now, nextRid, issuedCount, exchanges, delivered>>

\* POST /callback with a Body.stkCallback
Callback(cb) ==
    /\ variant # "modified"
    /\ Events < MaxEvents
    /\ delivered' = delivered + 1
    /\ logs' = IF CallbackThrows(variant, cb) THEN logs
               ELSE Reconcile(variant, logs, cb, now)
    /\ last' = [Resp("callback", CallbackStatus(variant, cb)) EXCEPT !.cb = <<cb>>]
    /\ UNCHANGED <<variant, credsConfigured, accessTokenCache, tokenExpiryTime,
                   now, inflight, nextRid, issuedCount, exchanges>>

\* POST /callback without a Body.stkCallback
CallbackInvalid ==
    /\ variant # "modified"
    /\ Events < MaxEvents
    /\ delivered' = delivered + 1
    /\ last' = Resp("callback", 400)
    /\ UNCHANGED <<variant, credsConfigured, logs, accessTokenCache,
                   tokenExpiryTime, now, inflight, nextRid, issuedCount, exchanges>>

\* GET /api/mpesa/status?checkoutId=id
StatusQuery(id) ==
    /\ variant \in {"render", "flyer"}
    /\ Events < MaxEvents
    /\ LET res == StatusById(logs, id)
       IN  /\ last' = [Resp("status", res.code) EXCEPT !.query = <<id>>,
                                                        !.body = res.body]
           /\ logs' = LogsAfterQuery(logs, res.body)
    /\ UNCHANGED <<variant, credsConfigured, accessTokenCache,
                   tokenExpiryTime, now, inflight, nextRid, issuedCount,
                   exchanges, delivered>>

\* GET /status?phone=q
StatusByPhoneQuery(q) ==
    /\ variant # "modified"
    /\ Events < MaxEvents
    /\ LET res == StatusByPhone(variant, logs, q)
       IN  /\ last' = [Resp("byphone", res.code) EXCEPT !.query = <<q>>,
                                                         !.body = res.body]
           /\ logs' = LogsAfterQuery(logs, res.body)
    /\ UNCHANGED <<variant, credsConfigured, accessTokenCache,
                   tokenExpiryTime, now, inflight, nextRid, issuedCount,
                   exchanges, delivered>>

\* GET /logs?phone=q
LogsQuery(q) ==
    /\ variant # "modified"
    /\ Events < MaxEvents
    /\ LET result == ListLogs(variant, logs, q)
       IN  /\ last' = [Resp("logs", 200) EXCEPT !.query = <<q>>,
                                                 !.body = result]
           /\ logs' = LogsAfterQuery(logs, result)
    /\ UNCHANGED <<variant, credsConfigured, accessTokenCache,
                   tokenExpiryTime, now, inflight, nextRid, issuedCount,
                   exchanges, delivered>>

\* time passes
Tick ==
    /\ Events < MaxEvents
    /\ now' = now + TickMs
    /\ last' = NoResp
    /\ UNCHANGED <<variant, credsConfigured, logs, accessTokenCache,
                   tokenExpiryTime, inflight, nextRid, issuedCount, exchanges,
                   delivered>>

Next ==
    \/ \E p \in PhoneInputs, m \in MetadataInputs : StkStart(p, m[1], m[2])
    \/ \E b \in PayInputs : PayStart(b[1], b[2])
    \/ \E b \in FlyerPayInputs : FlyerPayStart(b[1], b[2])
    \/ \E r \in inflight : OauthOk(r)
    \/ \E r \in inflight : OauthFail(r)
    \/ \E r \in inflight : StkAccepted(r)
    \/ \E r \in inflight : StkFailed(r)
    \/ \E cb \in CallbackInputs : Callback(cb)
    \/ CallbackInvalid
    \/ \E id \in IdQueries : StatusQuery(id)
    \/ \E q \in PhoneQueries : StatusByPhoneQuery(q)
    \/ \E q \in LogsQueries : LogsQuery(q)
    \/ Tick

Spec == Init /\ [][Next]_vars

----------------------------------------------------------------------------
(* POST /pay of part_001 over a range of phone inputs.  The server has      *)
(* answered all but one of the requests it is sent, each with a validation  *)
(* error; the last one is a payment of 20 from a phone of PhoneDomain.      *)

\* subscriber numbers: nine digits
Subscribers ==
    {Str(<<"7", "1", "2", "3", "4", "5", "6", "7", "8">>),
     Str(<<"1", "1", "2", "3", "4", "5", "6", "7", "8">>)}

\* the national, the bare and the international form of a subscriber number
PhoneForms(sub) == {Str(<<"0">>) \o sub, sub, Str(<<"2", "5", "4">>) \o sub}

\* separators of a phone input: the space, the tab, the vertical tab
\* (U+000B), the em space (U+2003) and the hyphen
Separators == {32, 9, 11, 8195, 45}

\* a form as it is, with a leading +, with a leading byte order mark
\* (U+FEFF), with a separator after its first four characters
Decorations(p) ==
    {p, Str(<<"+">>) \o p, <<65279>> \o p}
    \cup {SubSeq(p, 1, 4) \o <<sep>> \o SubSeq(p, 5, Len(p)) :
              sep \in Separators}

\* inputs of none of the three forms: text, too few digits, too many
\* digits, a letter among the digits, separators only, nothing
MalformedPhones ==
    {Str(<<"a", "b", "c">>),
     Str(<<"0", "7", "1", "2">>),
     Str(<<"2", "5", "4", "7", "1", "2", "3", "4", "5", "6", "7", "8", "9">>),
     Str(<<"0", "7", "1", "2", "x", "4", "5", "6", "7", "8">>),
     Str(<<"+", " ", "-">>),
     <<>>}

PhoneDomain ==
    UNION { UNION { Decorations(p) : p \in PhoneForms(sub) } :
            sub \in Subscribers }
    \cup MalformedPhones

PhoneInit ==
    /\ variant = "peron"
    /\ credsConfigured \in BOOLEAN
    /\ logs = <<>>
    /\ accessTokenCache = Null
    /\ tokenExpiryTime = NoNum
    /\ now = 0
    /\ inflight = {}
    /\ nextRid = MaxEvents - 1
    /\ issuedCount = 0
    /\ exchanges = 0
    /\ delivered = 0
    /\ last = Resp("pay", 400)

PhoneNext ==
    \/ \E p \in PhoneDomain : PayStart(p, Num(FIXED_AMOUNT))
    \/ \E r \in inflight : OauthOk(r)
    \/ \E r \in inflight : OauthFail(r)
    \/ \E r \in inflight : StkAccepted(r)
    \/ \E r \in inflight : StkFailed(r)

PhoneSpec == PhoneInit /\ [][PhoneNext]_vars

----------------------------------------------------------------------------
(* Vocabulary of the properties.  The specification's Succeeded is the     *)
(* code's 'Success'; receiptReference is mpesaReceipt, resultDetail is     *)
(* resultDesc, validUntil is expiry, correlationId is checkoutId.          *)

Terminal == {"Success", "Failed"}

\* the record was created by a callback that matched no record
IsOrphan(l) == "ResultCode" \in DOMAIN l.details

\* this step is a POST /callback that carried a Body.stkCallback
CallbackStep == delivered' = delivered + 1 /\ last'.cb # <<>>

\* what the specification calls the observable state of the ledger
Observable(ls) ==
    [i \in 1..Len(ls) |->
        <<ls[i].status, ls[i].mpesaReceipt, ls[i].resultDesc, ls[i].expiry>>]

\* this step ends an initiation before the gateway returned an identifier:
\* the handler answers at once, or the token exchange or the submission fails
InitiationFails ==
    \/ nextRid' = nextRid + 1 /\ inflight' = inflight
    \/ \E r \in inflight :
        /\ inflight' = inflight \ {r}
        /\ r.pc = "oauth" \/ r.outcome = "error"

\* the cache holds a token whose expiry time has not passed
CacheValid ==
    /\ Truthy(accessTokenCache)
    /\ tokenExpiryTime # NoNum /\ NumVal(tokenExpiryTime) > now

\* the requests this step suspends at a gateway call
NewlySuspended == inflight' \ inflight

\* this step receives an initiation request
CallStep == nextRid' = nextRid + 1

Digit == CodeUnit["0"]..CodeUnit["9"]

\* a phone input without its whitespace and hyphens
RECURSIVE Unspaced(_)
Unspaced(p) ==
    IF p = <<>> THEN <<>>
    ELSE IF Head(p) \in Whitespace \cup {CodeUnit["-"]}
         THEN Unspaced(Tail(p))
         ELSE <<Head(p)>> \o Unspaced(Tail(p))

\* a phone input without its spaces, its hyphens and its leading +
Stripped(p) ==
    LET q == Unspaced(p)
    IN  IF q # <<>> /\ Head(q) = CodeUnit["+"] THEN Tail(q) ELSE q

\* the three accepted shapes: 0 and nine digits, nine digits without a
\* leading 0, the country code and nine digits
NationalShape(c) ==
    Len(c) = 10 /\ c[1] = CodeUnit["0"] /\ \A i \in 1..Len(c) : c[i] \in Digit
BareShape(c) ==
    Len(c) = 9 /\ c[1] # CodeUnit["0"] /\ \A i \in 1..Len(c) : c[i] \in Digit
InternationalShape(c) ==
    /\ Len(c) = 12 /\ SubSeq(c, 1, 3) = Str(<<"2", "5", "4">>)
    /\ \A i \in 1..Len(c) : c[i] \in Digit
AcceptedShape(c) == NationalShape(c) \/ BareShape(c) \/ InternationalShape(c)

\* the nine digits of the subscriber, and the canonical international value
SubscriberOf(c) == SubSeq(c, Len(c) - 8, Len(c))
Canonical(c) == Str(<<"2", "5", "4">>) \o SubscriberOf(c)

\* the amount is a number above zero and not above the ceiling
WithinLimit(amount) ==
    amount # NoNum /\ NumVal(amount) > 0 /\ NumVal(amount) <= MAX_AMOUNT

\* the indices of the records GET /status?phone=q is about: those whose
\* phone is q, in the form the iteration stores phones in
RecordsOf(q) ==
    {i \in 1..Len(logs) :
        logs[i].phone = IF variant = "peron" THEN normalizePhone(q) ELSE q}

Latest(idx) == CHOOSE i \in idx : \A j \in idx : j <= i

----------------------------------------------------------------------------
(* C1: a record's state changes only from Pending to Success or Failed,    *)
(* and a record that is Success or Failed never changes state again.       *)
C1_StateChangesOnce ==
    [][\A i \in 1..Len(logs) :
          logs'[i].status # logs[i].status
              => logs[i].status = "Pending" /\ logs'[i].status \in Terminal]_vars

(* C2: delivering the same callback twice in a row leaves the ledger in    *)
(* the same observable state as delivering it once, and both deliveries    *)
(* are acknowledged.                                                       *)
C2_ReconcileIdempotent ==
    [][(CallbackStep /\ last.op = "callback" /\ last.cb = last'.cb)
          => /\ Observable(logs') = Observable(logs)
             /\ last.code = 200 /\ last'.code = 200]_vars

(* C3: no two records carry the same populated correlation identifier.     *)
C3_UniqueCheckoutIds ==
    \A i, j \in 1..Len(logs) :
        (i # j /\ Truthy(logs[i].checkoutId))
            => logs[i].checkoutId # logs[j].checkoutId

(* C4: when a callback was processed before the initiation appended its    *)
(* record, the record found under the identifier while the initiation is   *)
(* suspended is the orphan, the orphan is a terminal record whose state is *)
(* the callback's outcome, and once the initiation has appended its        *)
(* Pending record a lookup by the identifier still returns the orphan:     *)
(* the status query by identifier answers with the orphan and reports the  *)
(* callback's outcome, not Pending.                                        *)
C4_OrphanFoundAfterRace ==
    /\ \A r \in inflight :
        (r.outcome = "ok" /\ FindIndex(logs, r.cid) # 0)
            => IsOrphan(logs[FindIndex(logs, r.cid)])
    /\ \A i, j \in 1..Len(logs) :
        (/\ IsOrphan(logs[i]) /\ ~IsOrphan(logs[j])
         /\ logs[j].checkoutId = logs[i].checkoutId)
            => /\ FindByCheckoutId(logs, logs[j].checkoutId) = <<logs[i]>>
               /\ logs[i].details.CheckoutRequestID = logs[j].checkoutId
               /\ logs[i].status = OutcomeOf(logs[i].details)
               /\ variant \in {"render", "flyer"}
                    => LET byId == StatusById(logs, logs[j].checkoutId)
                       IN  /\ byId.code = 200
                           /\ byId.body = <<StatusProjection(logs[i])>>
                           /\ byId.body[1].status = OutcomeOf(logs[i].details)

(* C5: a callback that carries a Body.stkCallback and whose identifier     *)
(* matches no record appends exactly one                                   *)
(* record carrying the identifier and the callback, leaves every earlier   *)
(* record as it was, and the record is the one a lookup by that            *)
(* identifier returns, then and in every later state.                      *)
C5_OrphanAppended ==
    (CallbackStep /\ FindIndex(logs, last'.cb[1].CheckoutRequestID) = 0)
        => LET cb == last'.cb[1]
               n == Len(logs')
           IN  /\ n = Len(logs) + 1
               /\ SubSeq(logs', 1, Len(logs)) = logs
               /\ logs'[n].checkoutId = cb.CheckoutRequestID
               /\ logs'[n].details = cb
               /\ FindByCheckoutId(logs', cb.CheckoutRequestID) = <<logs'[n]>>

C5_OrphanRetrievable ==
    \A i \in 1..Len(logs) :
        IsOrphan(logs[i])
            => /\ FindIndex(logs, logs[i].checkoutId) = i
               /\ logs[i].details.CheckoutRequestID = logs[i].checkoutId

C5_UnknownCallbackRecorded ==
    []C5_OrphanRetrievable /\ [][C5_OrphanAppended]_vars

(* C6: every record's state is Pending, Success or Failed.                 *)
C6_StatusDomain ==
    \A i \in 1..Len(logs) : logs[i].status \in {"Pending"} \cup Terminal

(* C7: a callback with a non-zero result code for an identifier that has   *)
(* a Pending record leaves the record found under the identifier Failed,   *)
(* with the callback's result description and without a receipt.           *)
C7_FailureCallback ==
    [][(/\ CallbackStep
        /\ last'.cb[1].ResultCode # 0
        /\ FindIndex(logs, last'.cb[1].CheckoutRequestID) # 0
        /\ logs[FindIndex(logs, last'.cb[1].CheckoutRequestID)].status = "Pending")
          => LET cb == last'.cb[1]
                 after == logs'[FindIndex(logs, cb.CheckoutRequestID)]
             IN  /\ after.status = "Failed"
                 /\ OrElse(after.resultDesc, Null) = OrElse(cb.ResultDesc, Null)
                 /\ ~Truthy(after.mpesaReceipt)]_vars

(* C8: a callback with result code 0 and receipt r, processed at time t    *)
(* for an identifier that has a Pending record, leaves the record found    *)
(* under the identifier Success with receipt r and expiry t + 12 hours.    *)
C8_SuccessCallback ==
    [][(/\ CallbackStep
        /\ last'.cb[1].ResultCode = 0
        /\ Truthy(ItemString(last'.cb[1].Items, "MpesaReceiptNumber"))
        /\ \E j \in 1..Len(logs) :
               /\ logs[j].checkoutId = last'.cb[1].CheckoutRequestID
               /\ logs[j].status = "Pending")
          => LET cb == last'.cb[1]
                 found == FindByCheckoutId(logs', cb.CheckoutRequestID)[1]
             IN  /\ found.status = "Success"
                 /\ found.mpesaReceipt = ItemString(cb.Items, "MpesaReceiptNumber")
                 /\ found.expiry = Num(now + ExpiryMs)]_vars

(* C9: a record has a receipt or an expiry only if its state is Success.   *)
C9_ReceiptOnlyOnSuccess ==
    \A i \in 1..Len(logs) :
        (Truthy(logs[i].mpesaReceipt) \/ logs[i].expiry # NoNum)
            => logs[i].status = "Success"

(* C10: an initiation that fails before the gateway returned an identifier *)
(* is answered with an error status and leaves the ledger as it was.       *)
C10_FailedInitiationLeavesNoTrace ==
    [][InitiationFails => (logs' = logs /\ last'.code >= 400)]_vars

\* with the credentials configured a 500 is a failed token exchange or a
\* failed submission
C10_Witness ==
    /\ last.op \in {"stk", "pay"} /\ last.code = 500
    /\ credsConfigured /\ inflight = {}
    /\ Len(logs) > 0

(* C11: every POST /callback that carries a Body.stkCallback is answered  *)
(* with the acknowledgment (status 200), one that carries none is answered *)
(* with a 4xx status, and no callback is answered with a 5xx status.       *)
C11_CallbackAlwaysAcknowledged ==
    [][(delivered' = delivered + 1)
          => IF last'.cb # <<>> THEN last'.code = 200
             ELSE last'.code \in 400..499]_vars

(* C12: a token that getAccessToken returns without a credential exchange *)
(* is the cached token and its expiry time is later than the current time, *)
(* and the cache is left as it was; what it returns after an exchange is   *)
(* the access_token of the gateway's answer, stored in the cache with a    *)
(* new expiry time.                                                        *)
C12_NoExpiredTokenServed ==
    [][\A r \in NewlySuspended :
          /\ r.cached
                => /\ r.token = accessTokenCache
                   /\ CacheValid
                   /\ accessTokenCache' = accessTokenCache
                   /\ tokenExpiryTime' = tokenExpiryTime
                   /\ exchanges' = exchanges
          /\ (r.pc = "resp" /\ ~r.cached)
                => /\ exchanges' = exchanges + 1
                   /\ r.token \in {AccessToken(exchanges'), Undefined}
                   /\ accessTokenCache' = r.token
                   /\ tokenExpiryTime' # NoNum
                   /\ NumVal(tokenExpiryTime') > now]_vars

\* a second token was fetched after the first had expired
C12_Witness ==
    /\ exchanges = 2 /\ now > 0
    /\ \E r \in inflight : r.pc = "resp" /\ r.token = AccessToken(2)

\* request r holds a token getAccessToken returned, and the validity window
\* the cache gave that token has not ended
InWindow(r) ==
    /\ r.pc = "resp" /\ Truthy(r.token)
    /\ r.until # NoNum /\ NumVal(r.until) > now

\* a call made when no unexpired token is cached sends exactly one exchange
\* to the gateway, and what it gets is the answer to that exchange
OneExchangePerMiss ==
    /\ (CallStep /\ ~CacheValid)
            => /\ exchanges' = exchanges
               /\ \A r \in NewlySuspended : r.pc = "oauth" /\ r.gets = 1
    /\ \A r \in inflight :
            (r.pc = "oauth" /\ r \notin inflight')
                => /\ r.gets = 1
                   /\ exchanges' \in {exchanges, exchanges + 1}
                   /\ \A r2 \in NewlySuspended :
                          /\ r2.rid = r.rid /\ r2.gets = 1
                          /\ exchanges' = exchanges + 1
                          /\ r2.token = accessTokenCache'

C14_ExpiryBeforeGatewayWindow ==
    [][\A r \in inflight :
          (r.pc = "oauth" /\ r \notin inflight' /\ exchanges' = exchanges + 1)
              => NumVal(tokenExpiryTime') < r.sentAt + GatewayValidityMs]_vars

(* C15: no payment with a caller-supplied amount that is not above zero   *)
(* or is above the ceiling reaches the gateway, and every record an        *)
(* initiation created has an amount above zero and not above the ceiling.  *)
C15_AmountWithinLimit ==
    /\ \A r \in inflight : r.op = "pay" => WithinLimit(r.amount)
    /\ \A i \in 1..Len(logs) :
          ~IsOrphan(logs[i]) => WithinLimit(logs[i].amount)

(* C16: a phone given in the national, the bare or the international form, *)
(* with or without spaces, hyphens or a leading +, is normalized to the    *)
(* canonical international value of its subscriber, the value every other  *)
(* form of the same subscriber is normalized to.                           *)
C16_OneCanonicalPhone ==
    \A r \in inflight :
        AcceptedShape(Stripped(r.rawPhone))
            => /\ r.phone = Canonical(Stripped(r.rawPhone))
               /\ \A f \in PhoneForms(SubscriberOf(Stripped(r.rawPhone))) :
                      normalizePhone(f) = r.phone

(* C17: GET /status?phone=q answers 404 exactly when no record has that    *)
(* phone, and otherwise answers with the record of that phone appended     *)
(* last, as it is in the ledger at that moment; the ledger is not changed. *)
C17_StatusByPhone ==
    [][(last'.op = "byphone" /\ last'.query # <<<<>>>>)
          => LET idx == RecordsOf(last'.query[1])
             IN  /\ logs' = logs
                 /\ IF idx = {}
                    THEN last'.code = 404 /\ last'.body = <<>>
                    ELSE last'.code = 200 /\ last'.body = <<logs[Latest(idx)]>>]_vars

\* two records of the same phone, the answer carries the later one
C17_Witness ==
    /\ last.op = "byphone" /\ last.code = 200
    /\ \E i, j \in 1..Len(logs) :
          /\ i < j /\ logs[i].phone = logs[j].phone /\ logs[i] # logs[j]
          /\ last.body = <<logs[j]>>

(* C18: an initiation whose gateway answer carries an identifier that a    *)
(* record of the ledger already has ends with a service error and leaves   *)
(* the ledger as it was.                                                   *)
C18_DuplicateIdRefused ==
    [][\A r \in inflight :
          (/\ r.pc = "resp" /\ r \notin inflight'
           /\ Truthy(r.cid) /\ FindIndex(logs, r.cid) # 0)
              => logs' = logs /\ last'.code >= 500]_vars

(* C19: no payment from a phone that, without its spaces, hyphens and      *)
(* leading +, has none of the three accepted shapes gets past the phone    *)
(* validation: such a phone is never taken as a canonical phone.           *)
C19_InvalidPhoneRefused ==
    \A r \in inflight : AcceptedShape(Stripped(r.rawPhone))

(* C20: no initiation with a missing or malformed phone, or with a missing *)
(* or non-positive amount, gets as far as a call to the gateway.           *)
C20_InvalidInputRejectedLocally ==
    \A r \in inflight :
        /\ r.rawPhone # <<>>
        /\ AcceptedShape(Stripped(r.rawPhone))
        /\ r.amount # NoNum /\ NumVal(r.amount) > 0

\* this step receives an initiation request that passes validation, so that
\* the handler calls getAccessToken
AcquireStep == CallStep /\ last'.code # 400

(* C21: a call of getAccessToken made with no unexpired token cached and   *)
(* the credentials not configured fails with CredentialsUnavailable; an    *)
(* exchange that errors or times out fails with UpstreamAuthFailure; in    *)
(* both cases no request gets a token and the initiation is answered with  *)
(* a 5xx status.                                                           *)
C21_AcquireFailures ==
    [][/\ (AcquireStep /\ ~CacheValid /\ ~credsConfigured)
            => /\ last'.err = "CredentialsUnavailable"
               /\ last'.code >= 500
               /\ NewlySuspended = {}
       /\ \A r \in inflight :
            (/\ r.pc = "oauth" /\ r \notin inflight'
             /\ exchanges' = exchanges \/ now - r.sentAt > OauthTimeoutMs)
                => /\ last'.err = "UpstreamAuthFailure"
                   /\ last'.code >= 500
                   /\ NewlySuspended = {}]_vars

\* this step answers a status or a listing query
QueryStep == last'.op \in {"status", "byphone", "logs"}

(* C22: a status query by identifier, a status query by phone, a listing   *)
(* by phone and a listing of all records leave the ledger and the token    *)
(* cache as they were, whether the query finds records or not.             *)
C22_QueriesReadOnly ==
    [][QueryStep => /\ logs' = logs
                    /\ accessTokenCache' = accessTokenCache
                    /\ tokenExpiryTime' = tokenExpiryTime]_vars

\* a listing by phone that returned some of the records and not all
C22_Witness ==
    /\ last.op = "logs" /\ last.query # <<<<>>>>
    /\ Len(last.body) > 0 /\ Len(last.body) < Len(logs)

\* the fields of a record that are set when it is created
Created(l) ==
    <<l.checkoutId, l.phone, l.amount, l.event, l.template, l.timestamp>>

(* C23: a POST /callback changes at most one of the records of the ledger, *)
(* leaves the identifier, phone, amount, event tag, template tag and       *)
(* creation timestamp of every record as they were, and removes or moves   *)
(* no record: it appends at most one.                                      *)
C23_CallbackFrame ==
    [][(delivered' = delivered + 1)
          => /\ Len(logs') \in {Len(logs), Len(logs) + 1}
             /\ \A i \in 1..Len(logs) : Created(logs'[i]) = Created(logs[i])
             /\ \A i, j \in 1..Len(logs) :
                    (logs'[i] # logs[i] /\ logs'[j] # logs[j]) => i = j
             /\ Len(logs') = Len(logs) + 1
                    => SubSeq(logs', 1, Len(logs)) = logs]_vars

\* a callback has updated the record an initiation created, next to another
\* record
C23_Witness ==
    /\ last.op = "callback" /\ last.code = 200 /\ last.cb # <<>>
    /\ Len(logs) = 2
    /\ \E i \in 1..Len(logs) :
          /\ ~IsOrphan(logs[i]) /\ logs[i].status \in Terminal
          /\ logs[i].checkoutId = last.cb[1].CheckoutRequestID
          /\ logs[i].phone # UnknownPhone

\* the request of inflight' that continues request r, if there is one
Continues(r, r2) == r2 \in inflight' /\ r2.rid = r.rid

(* C24: every initiation request is behind at most one credential          *)
(* exchange and at most one STK submission; when a gateway call of a       *)
(* request returns, the request either moves on from the exchange to its   *)
(* one submission or ends, and a request that ends appends at most one     *)
(* record and is not started again.                                        *)
C24_AtMostOnce ==
    \A r \in inflight :
        /\ r.gets <= 1 /\ r.posts <= 1
        /\ \A r2 \in inflight : r2.rid = r.rid => r2 = r

C24_NoRestart ==
    /\ \A r \in inflight :
          r \notin inflight'
              => \/ /\ r.pc = "oauth"
                    /\ \E r2 \in inflight' :
                          /\ Continues(r, r2) /\ r2.pc = "resp"
                          /\ r2.gets = r.gets /\ r2.posts = r.posts + 1
                    /\ logs' = logs
                 \/ /\ \A r2 \in inflight' : ~Continues(r, r2)
                    /\ Len(logs') <= Len(logs) + 1
                    /\ last'.op = r.op
    /\ CallStep => /\ logs' = logs
                   /\ \A r \in NewlySuspended :
                          r.rid = nextRid' /\ r.gets + r.posts = 1
    /\ \A r \in NewlySuspended : CallStep \/ \E r0 \in inflight : r0.rid = r.rid

C24_NoAutomaticRetry == []C24_AtMostOnce /\ [][C24_NoRestart]_vars

\* two requests have ended: one fetched a token, was accepted and appended
\* its record, the other failed
C24_Witness ==
    /\ inflight = {} /\ nextRid = 2 /\ exchanges = 1
    /\ last.op \in {"stk", "pay"} /\ last.code >= 500
    /\ \E i \in 1..Len(logs) : logs[i].status = "Pending"

(* C25: every record of the ledger has a correlation identifier that is   *)
(* neither null nor absent: a gateway answer without an identifier leaves  *)
(* no Pending record.                                                      *)
C25_EveryRecordHasId ==
    \A i \in 1..Len(logs) : Truthy(logs[i].checkoutId)

\* what a status answer says of a payment: its state, receipt and result
\* description, an absent value read as null
Reported(b) ==
    <<b.status, OrElse(b.mpesaReceipt, Null), OrElse(b.resultDesc, Null)>>

(* C26: whenever GET /status?phone=p answers with a record that has the    *)
(* identifier c, GET /api/mpesa/status?checkoutId=c answers 200 with the   *)
(* state, receipt and result description of that record.                   *)
C26_StatusQueriesAgree ==
    variant \in {"render", "flyer"}
        => \A q \in PhoneQueries :
              LET byPhone == StatusByPhone(variant, logs, q)
              IN  (byPhone.code = 200 /\ Truthy(byPhone.body[1].checkoutId))
                      => LET byId == StatusById(logs, byPhone.body[1].checkoutId)
                         IN  /\ byId.code = 200
                             /\ Reported(byId.body[1]) = Reported(byPhone.body[1])

(* C27: a POST /callback that carries a Body.stkCallback with the          *)
(* identifier of a record an initiation created, processed while that      *)
(* record is Pending, leaves the record in a state other than Pending.     *)
C27_PendingLeavesPending ==
    [][CallbackStep
          => \A j \in 1..Len(logs) :
                (/\ ~IsOrphan(logs[j]) /\ logs[j].status = "Pending"
                 /\ logs[j].checkoutId = last'.cb[1].CheckoutRequestID)
                    => logs'[j].status # "Pending"]_vars

\* this step is a call of getAccessToken that fails: it finds the
\* credentials missing, or its exchange ends with an error or a timeout
\* and not with a 2xx answer
AcquireFails ==
    \/ AcquireStep /\ last'.err = "CredentialsUnavailable"
    \/ \E r \in inflight :
          /\ r.pc = "oauth" /\ r \notin inflight'
          /\ exchanges' = exchanges

(* C28: a call of getAccessToken that fails, for missing credentials, a    *)
(* gateway error or a timeout, leaves the cached token and its expiry     *)
(* time as they were, also when another request has cached a token since   *)
(* the failing exchange was sent.                                          *)
C28_FailedExchangeKeepsCache ==
    [][AcquireFails => /\ accessTokenCache' = accessTokenCache
                       /\ tokenExpiryTime' = tokenExpiryTime
                       /\ exchanges' = exchanges]_vars

\* an exchange has failed while the cache holds the unexpired token another
\* request fetched
C28_Witness ==
    /\ last.err = "UpstreamAuthFailure"
    /\ exchanges = 1 /\ accessTokenCache = AccessToken(1)
    /\ CacheValid

====
